---- MODULE Spec2Model ----
(***************************************************************************)
(* Email Agent (uplift-labs/CALENDER_AGENT): config.py (class Config) and  *)
(* main.py (OAuth lifecycle, run_gmail_agent, Flask handlers).             *)
(*                                                                         *)
(* Python's None is the string None; a dict key that is absent and a key   *)
(* holding None are the same for dict.get, so a dict is a function that    *)
(* maps an absent key to None.  The provider's connection listing is the   *)
(* listing for the operator user and the GMAIL toolkit (main.py:48-51).    *)
(***************************************************************************)
EXTENDS Naturals, Sequences, FiniteSets

VARIABLES
    _config,         \* Config._config: stored credentials        (config.py:38)
    config_file,     \* credentials.json                          (config.py:30)
    environ,         \* os.environ, the credential variables
    _auth_config,    \* Config._auth_config: Auth State           (config.py:39)
    auth_file,       \* auth_config.json                          (config.py:31)
    composio_client, \* main.composio_client is set               (main.py:26)
    openai_client,   \* main.openai_client is set                 (main.py:27)
    accounts,        \* provider: connected accounts of the user, in listing order
    auth_configs,    \* provider: auth configurations, in listing order
    last,            \* the handler that has just returned: its provider calls and reply
    agent,           \* the run_gmail_agent invocation in progress
    running          \* the server is up                         (main.py:510)

cfgVars == <<_config, config_file, environ>>
authVars == <<_auth_config, auth_file>>
clientVars == <<composio_client, openai_client>>
providerVars == <<accounts, auth_configs>>
vars == <<_config, config_file, environ, _auth_config, auth_file,
          composio_client, openai_client, accounts, auth_configs, last, agent,
          running>>

None == "None"

\* Python truthiness of an Optional[str]
Truthy(v) == v # None /\ v # ""

(***************************************************************************)
(* config.py: the Credential Set                                           *)
(***************************************************************************)
RequiredNames == <<"composio_api_key", "openai_api_key", "azure_openai_endpoint">>

CredNames == {"composio_api_key", "openai_api_key", "azure_openai_endpoint",
              "openai_api_version", "azure_openai_deployment",
              "gmail_client_id", "gmail_client_secret"}

\* the values a setter is handed, and the values an environment variable holds
StoredValues == {"", "a"}
EnvValues == {"e"}

\* os.getenv(NAME): the variable's value, None when it is not set
Getenv(n) == environ[n]

\* os.getenv(NAME, default)
GetenvDefault(n, default) == IF environ[n] = None THEN default ELSE environ[n]

\* Python's `x or y`
Or(x, y) == IF Truthy(x) THEN x ELSE y

composio_api_key == Or(_config["composio_api_key"], Getenv("composio_api_key"))
openai_api_key == Or(_config["openai_api_key"], Getenv("openai_api_key"))
azure_openai_endpoint ==
    Or(_config["azure_openai_endpoint"], Getenv("azure_openai_endpoint"))
openai_api_version ==
    Or(_config["openai_api_version"],
       GetenvDefault("openai_api_version", "2024-12-01-preview"))
azure_openai_deployment ==
    Or(_config["azure_openai_deployment"],
       GetenvDefault("azure_openai_deployment", "gpt-4o"))
gmail_client_id == Or(_config["gmail_client_id"], Getenv("gmail_client_id"))
gmail_client_secret ==
    Or(_config["gmail_client_secret"], Getenv("gmail_client_secret"))

\* the property getter of a credential name
Getter(n) ==
    CASE n = "composio_api_key" -> composio_api_key
      [] n = "openai_api_key" -> openai_api_key
      [] n = "azure_openai_endpoint" -> azure_openai_endpoint
      [] n = "openai_api_version" -> openai_api_version
      [] n = "azure_openai_deployment" -> azure_openai_deployment
      [] n = "gmail_client_id" -> gmail_client_id
      [] n = "gmail_client_secret" -> gmail_client_secret

\* is_configured without the endpoint check
is_configured_no_endpoint ==
    /\ Truthy(composio_api_key)
    /\ Truthy(openai_api_key)

is_configured ==
    /\ Truthy(composio_api_key)
    /\ Truthy(openai_api_key)
    /\ Truthy(azure_openai_endpoint)

\* get_missing_credentials appending the endpoint before the model key
get_missing_credentials_reordered ==
    LET m1 == IF ~Truthy(composio_api_key) THEN <<"composio_api_key">> ELSE <<>>
        m2 == IF ~Truthy(azure_openai_endpoint)
              THEN Append(m1, "azure_openai_endpoint") ELSE m1
        m3 == IF ~Truthy(openai_api_key) THEN Append(m2, "openai_api_key") ELSE m2
    IN  m3

get_missing_credentials ==
    LET m1 == IF ~Truthy(composio_api_key) THEN <<"composio_api_key">> ELSE <<>>
        m2 == IF ~Truthy(openai_api_key) THEN Append(m1, "openai_api_key") ELSE m1
        m3 == IF ~Truthy(azure_openai_endpoint)
              THEN Append(m2, "azure_openai_endpoint") ELSE m2
    IN  m3

\* the number of keys the stored credential dict holds
MaxStored == 3

StoredKeys(c) == {n \in CredNames : c[n] # None}

\* a property setter: store the value, rewrite credentials.json
Setter(n, v) ==
    /\ _config' = [_config EXCEPT ![n] = v]
    /\ Cardinality(StoredKeys(_config')) <= MaxStored
    /\ config_file' = _config'
    /\ UNCHANGED <<environ, authVars, clientVars, providerVars, last, agent, running>>

\* the number of keyword arguments one set_credentials call is given
MaxArgs == 1

\* the keyword arguments of a set_credentials call: None is an argument left out
CredArgs ==
    {a \in [CredNames -> StoredValues \cup {None}] :
        Cardinality({n \in CredNames : a[n] # None}) <= MaxArgs}

\* Config.set_credentials: each truthy argument goes through its setter
SetCredentialsResult(a) ==
    [n \in CredNames |-> IF Truthy(a[n]) THEN a[n] ELSE _config[n]]

\* the credentials POST /config hands to set_credentials (user_id apart)
UpdateNames == {"composio_api_key", "openai_api_key",
                "gmail_client_id", "gmail_client_secret"}

\* initialize_clients: raises when not configured, else builds both clients
\* (the constructors only record the key)
initialize_clients_raises(configured) == ~configured

\* POST /config: empty data is refused (400); otherwise set_credentials, then
\* the clients are rebuilt when the credentials are complete (200 either way)
update_config(data_empty, a) ==
    /\ running
    /\ \A n \in CredNames \ UpdateNames : a[n] = None
    /\ data_empty => \A n \in CredNames : a[n] = None
    /\ UNCHANGED <<environ, authVars, providerVars, last, agent, running>>
    /\ IF data_empty
       THEN UNCHANGED <<_config, config_file, clientVars>>
       ELSE /\ _config' = SetCredentialsResult(a)
            /\ Cardinality(StoredKeys(_config')) <= MaxStored
            /\ config_file' = _config'
            /\ composio_client' =
                   IF initialize_clients_raises(is_configured')
                   THEN composio_client ELSE TRUE
            /\ openai_client' =
                   IF initialize_clients_raises(is_configured')
                   THEN openai_client ELSE TRUE

\* main.py at import: the two API keys the config resolves are exported
ExportEnv ==
    /\ environ' = [environ EXCEPT
                     !["composio_api_key"] =
                         IF Truthy(composio_api_key) THEN composio_api_key ELSE @,
                     !["openai_api_key"] =
                         IF Truthy(openai_api_key) THEN openai_api_key ELSE @]
    /\ UNCHANGED <<_config, config_file, authVars, clientVars, providerVars, last, agent, running>>

\* the number of credential variables the environment sets at start
MaxEnv == 2

NoCall == [op |-> "none"]

\* the model provider's reply: None stands for no reply (the call raised, or
\* was not made)
NoResponse == [content |-> None, tool_calls |-> <<>>, replied |-> FALSE]

\* no run_gmail_agent invocation has been made; executed and outputs are the
\* tool calls the provider ran for the response and the lengths they returned
\* pre is what run_gmail_agent started from: whether it was entered, whether
\* both clients were built, and what the provider's listing call would show
AgentIdle ==
    [pc |-> "idle", model_calls |-> 0, response |-> NoResponse,
     executed |-> <<>>, outputs |-> <<>>, result |-> None, error |-> None,
     pre |-> [entered |-> FALSE, clients |-> FALSE, had_active |-> FALSE,
              list_accounts_raised |-> FALSE]]

InitConfig ==
    /\ config_file \in [CredNames -> StoredValues \cup {None}]
    /\ Cardinality(StoredKeys(config_file)) <= MaxStored
    /\ _config = config_file
    /\ environ \in [CredNames -> EnvValues \cup {None}]
    /\ Cardinality({n \in CredNames : environ[n] # None}) <= MaxEnv
    /\ _auth_config = [connection_id |-> None, gmail_auth_config_id |-> None]
    /\ auth_file = _auth_config
    /\ composio_client = FALSE
    /\ openai_client = FALSE
    /\ accounts = <<>>
    /\ auth_configs = <<>>
    /\ last = NoCall
    /\ agent = AgentIdle
    /\ running = TRUE

SetterStep == \E n \in CredNames, v \in StoredValues : Setter(n, v)
UpdateConfigStep == \E e \in BOOLEAN, a \in CredArgs : update_config(e, a)

NextConfig ==
    \/ SetterStep
    \/ UpdateConfigStep
    \/ ExportEnv

SpecConfig == InitConfig /\ [][NextConfig]_vars

(***************************************************************************)
(* main.py: the OAuth lifecycle                                            *)
(*                                                                         *)
(* accounts is the provider's listing of connected accounts for the        *)
(* operator user and GMAIL, auth_configs the provider's auth               *)
(* configurations; an auth configuration the provider has deleted stays in *)
(* the sequence with listed = FALSE, so that identifiers are never reused. *)
(* A handler runs to completion before the next one starts; the outcome of *)
(* every provider call inside it is an input of the action.                *)
(***************************************************************************)
\* the number of connected accounts and of auth configurations the provider holds
MaxAccounts == 2
MaxAuthConfigs == 2

AccountIds == <<"ca_1", "ca_2", "ca_3", "ca_4">>
AuthConfigIds == <<"ac_1", "ac_2", "ac_3", "ac_4">>
\* the code tells ACTIVE from every other status; INACTIVE stands for those
\* (INITIATED, EXPIRED, FAILED, disabled)
Statuses == {"ACTIVE", "INACTIVE"}
Toolkits == {"GMAIL", "SLACK"}

\* config.connection_id, config.gmail_auth_config_id
connection_id == _auth_config.connection_id
gmail_auth_config_id == _auth_config.gmail_auth_config_id

is_authenticated == Truthy(connection_id)

\* the outcomes of the provider calls one handler makes
Outcomes ==
    [list_accounts_raises : BOOLEAN,   \* connected_accounts.list     main.py:48
     list_configs_raises : BOOLEAN,    \* auth_configs.list           main.py:74
     list_configs2_raises : BOOLEAN,   \* auth_configs.list           main.py:83
     create_raises : BOOLEAN,          \* auth_configs.create         main.py:92
     initiate_raises : BOOLEAN,        \* connected_accounts.initiate main.py:115
     wait : {"connected", "timeout"}]  \* wait_for_connection         main.py:135

\* a call that raises ends authenticate_gmail: the calls after it are not made
AuthOutcomes ==
    {o \in Outcomes :
        /\ o.create_raises => ~o.initiate_raises
        /\ (o.create_raises \/ o.initiate_raises) => o.wait = "connected"}

\* a status check makes the listing call only
StatusOutcomes ==
    {o \in AuthOutcomes :
        /\ ~o.list_configs_raises /\ ~o.list_configs2_raises
        /\ ~o.create_raises /\ ~o.initiate_raises /\ o.wait = "connected"}

\* the first index a for loop with an early return stops at: the least of
\* the matching indices, 0 when none matches
FirstIndex(matching) ==
    IF matching = {} THEN 0
    ELSE CHOOSE i \in matching : \A j \in matching : i <= j

IsActive(account) == account.status = "ACTIVE"

\* check_connected_account_exists comparing the status with a string no
\* account carries: no account is ever found
check_wrong_status(client, o) ==
    [raised |-> FALSE, ret |-> FALSE, connection_id |-> connection_id]

\* check_connected_account_exists without its try/except: the exception of
\* the listing call leaves the function
check_without_except(client, o) ==
    LET i == FirstIndex({k \in 1..Len(accounts) : IsActive(accounts[k])})
    IN  IF client /\ o.list_accounts_raises
        THEN [raised |-> TRUE, ret |-> FALSE, connection_id |-> connection_id]
        ELSE IF ~client \/ i = 0
        THEN [raised |-> FALSE, ret |-> FALSE, connection_id |-> connection_id]
        ELSE [raised |-> FALSE, ret |-> TRUE, connection_id |-> accounts[i].id]

\* check_connected_account_exists: whether it raised, the value returned and
\* config.connection_id afterwards
check_connected_account_exists(client, o) ==
    LET i == FirstIndex({k \in 1..Len(accounts) : IsActive(accounts[k])})
    IN  IF ~client \/ o.list_accounts_raises \/ i = 0
        THEN [raised |-> FALSE, ret |-> FALSE, connection_id |-> connection_id]
        ELSE [raised |-> FALSE, ret |-> TRUE, connection_id |-> accounts[i].id]

\* auth_configs.list().items
ListedConfigs == SelectSeq(auth_configs, LAMBDA c : c.listed)

\* get_or_create_auth_config: raised, the id of the auth config returned,
\* config.gmail_auth_config_id and the provider's auth configurations afterwards,
\* and whether auth_configs.create was called
get_or_create_auth_config(client, o) ==
    LET items == ListedConfigs
        keep == [raised |-> FALSE, id |-> gmail_auth_config_id,
                 gmail_auth_config_id |-> gmail_auth_config_id,
                 auth_configs |-> auth_configs, create_called |-> FALSE]
        recorded == FirstIndex({k \in 1..Len(items) : items[k].id = gmail_auth_config_id})
        gmail == FirstIndex({k \in 1..Len(items) : items[k].toolkit = "GMAIL"})
        new == [id |-> AuthConfigIds[Len(auth_configs) + 1], toolkit |-> "GMAIL",
                listed |-> TRUE, ours |-> TRUE]
    IN  IF ~client
        THEN [keep EXCEPT !.raised = TRUE]
        ELSE IF Truthy(gmail_auth_config_id) /\ ~o.list_configs_raises /\ recorded # 0
        THEN keep
        ELSE IF ~o.list_configs2_raises /\ gmail # 0
        THEN [keep EXCEPT !.id = items[gmail].id,
                          !.gmail_auth_config_id = items[gmail].id]
        ELSE IF o.create_raises
        THEN [keep EXCEPT !.raised = TRUE, !.create_called = TRUE]
        ELSE [raised |-> FALSE, id |-> new.id, gmail_auth_config_id |-> new.id,
              auth_configs |-> Append(auth_configs, new), create_called |-> TRUE]

\* authenticate_gmail: raised, Auth State and the provider afterwards, and the
\* provider calls made
authenticate_gmail(client, o) ==
    LET g == get_or_create_auth_config(client, o)
        request == [id |-> AccountIds[Len(accounts) + 1], status |-> "INACTIVE"]
        base == [raised |-> TRUE, connection_id |-> connection_id,
                 gmail_auth_config_id |-> g.gmail_auth_config_id,
                 accounts |-> accounts, auth_configs |-> g.auth_configs,
                 create_called |-> g.create_called, initiate_called |-> FALSE,
                 wait_called |-> FALSE, timed_out |-> FALSE]
    IN  IF ~client
        THEN base
        ELSE IF g.raised
        THEN base
        ELSE IF o.initiate_raises
        THEN [base EXCEPT !.initiate_called = TRUE]
        ELSE IF o.wait = "timeout"
        THEN [base EXCEPT !.initiate_called = TRUE, !.wait_called = TRUE,
                          !.timed_out = TRUE,
                          !.accounts = Append(accounts, request)]
        ELSE [base EXCEPT !.raised = FALSE, !.initiate_called = TRUE,
                          !.wait_called = TRUE,
                          !.accounts = Append(accounts,
                                              [request EXCEPT !.status = "ACTIVE"]),
                          !.connection_id = request.id]

\* the provider has room for what the call creates
Room(a) ==
    /\ Len(a.accounts) <= MaxAccounts
    /\ Len(a.auth_configs) <= MaxAuthConfigs

\* what a handler leaves in last: the provider calls it made, what the provider
\* held when it ran, and its reply
Call(op, http, o, a) ==
    [op |-> op, http |-> http,
     had_active |-> \E i \in 1..Len(accounts) : IsActive(accounts[i]),
     had_gmail_config |-> \E i \in 1..Len(ListedConfigs) :
                              ListedConfigs[i].toolkit = "GMAIL",
     list_accounts_raised |-> o.list_accounts_raises,
     create_called |-> a.create_called,
     initiate_called |-> a.initiate_called,
     wait_called |-> a.wait_called,
     timed_out |-> a.timed_out,
     authenticated |-> None]

NoCalls == [create_called |-> FALSE, initiate_called |-> FALSE,
            wait_called |-> FALSE, timed_out |-> FALSE]

\* clear_auth that drops the connection only
clear_auth_keeps_auth_config ==
    [connection_id |-> None, gmail_auth_config_id |-> gmail_auth_config_id]

\* clear_auth: _auth_config = {}, so both getters find no key and return None
clear_auth == [connection_id |-> None, gmail_auth_config_id |-> None]

\* config.connection_id = ..., config.gmail_auth_config_id = ...: the setters
\* rewrite auth_config.json
SetAuth(conn, cfg) ==
    /\ _auth_config' = [connection_id |-> conn, gmail_auth_config_id |-> cfg]
    /\ auth_file' = _auth_config'

\* what GET /status answers: the "authenticated" entry of its JSON body, None
\* when an exception left the view (500)
StatusReply(chk) ==
    [Call("status", IF chk.raised THEN 500 ELSE 200,
          [list_accounts_raises |-> FALSE], NoCalls)
        EXCEPT !.authenticated = IF chk.raised THEN None
                                 ELSE IF chk.ret THEN "true" ELSE "false"]

\* GET /status
status(o) ==
    LET chk == check_connected_account_exists(composio_client, o)
    IN  /\ running
        /\ SetAuth(chk.connection_id, gmail_auth_config_id)
        /\ last' = [StatusReply(chk) EXCEPT !.list_accounts_raised =
                        composio_client /\ o.list_accounts_raises]
        /\ UNCHANGED <<cfgVars, clientVars, providerVars, agent, running>>

\* POST /authenticate
authenticate(o) ==
    LET chk == check_connected_account_exists(TRUE, o)
        a == authenticate_gmail(TRUE, o)
    IN  /\ running
        /\ UNCHANGED <<cfgVars, agent, running>>
        /\ IF ~is_configured
           THEN /\ last' = [Call("authenticate", 400, o, NoCalls)
                               EXCEPT !.list_accounts_raised = FALSE]
                /\ UNCHANGED <<authVars, clientVars, providerVars>>
           ELSE /\ composio_client' = TRUE
                /\ openai_client' = TRUE
                /\ IF chk.raised
                   THEN /\ last' = Call("authenticate", 500, o, NoCalls)
                        /\ UNCHANGED <<authVars, providerVars>>
                   ELSE IF chk.ret
                   THEN /\ SetAuth(chk.connection_id, gmail_auth_config_id)
                        /\ last' = Call("authenticate", 200, o, NoCalls)
                        /\ UNCHANGED providerVars
                   ELSE /\ Room(a)
                        /\ SetAuth(a.connection_id, a.gmail_auth_config_id)
                        /\ accounts' = a.accounts
                        /\ auth_configs' = a.auth_configs
                        /\ last' = Call("authenticate",
                                        IF a.raised THEN 500 ELSE 200, o, a)

\* POST /logout: Config.clear_auth
logout ==
    /\ running
    /\ _auth_config' = clear_auth
    /\ auth_file' = _auth_config'
    /\ last' = [op |-> "logout", http |-> 200,
                was_authenticated |-> is_authenticated]
    /\ UNCHANGED <<cfgVars, clientVars, providerVars, agent, running>>

\* the process is started again: the module globals are rebuilt, Config()
\* reloads both files and main.py exports the two API keys
Import ==
    /\ _config' = config_file
    /\ _auth_config' = auth_file
    /\ composio_client' = FALSE
    /\ openai_client' = FALSE
    /\ running' = FALSE
    /\ environ' = [environ EXCEPT
                     !["composio_api_key"] =
                         IF Truthy(Or(config_file["composio_api_key"], @))
                         THEN Or(config_file["composio_api_key"], @) ELSE @,
                     !["openai_api_key"] =
                         IF Truthy(Or(config_file["openai_api_key"], @))
                         THEN Or(config_file["openai_api_key"], @) ELSE @]
    /\ last' = NoCall
    /\ UNCHANGED <<config_file, auth_file, providerVars, agent>>

\* main(): startup_check, then the server runs; an exception of
\* authenticate_gmail is not caught there and ends the process
main(answer_yes, o) ==
    LET chk == check_connected_account_exists(TRUE, o)
        a == authenticate_gmail(TRUE, o)
    IN  /\ ~running
        /\ UNCHANGED <<cfgVars, agent>>
        /\ IF ~is_configured
           THEN /\ running' = TRUE
                /\ last' = [op |-> "main", http |-> 0, create_called |-> FALSE]
                /\ UNCHANGED <<authVars, clientVars, providerVars>>
           ELSE IF chk.raised
           THEN /\ running' = FALSE
                /\ last' = Call("main", 0, o, NoCalls)
                /\ UNCHANGED <<authVars, clientVars, providerVars>>
           ELSE IF chk.ret \/ ~answer_yes
           THEN /\ composio_client' = TRUE
                /\ openai_client' = TRUE
                /\ SetAuth(chk.connection_id, gmail_auth_config_id)
                /\ running' = TRUE
                /\ last' = Call("main", 0, o, NoCalls)
                /\ UNCHANGED providerVars
           ELSE /\ Room(a)
                /\ composio_client' = ~a.raised
                /\ openai_client' = ~a.raised
                /\ SetAuth(a.connection_id, a.gmail_auth_config_id)
                /\ accounts' = a.accounts
                /\ auth_configs' = a.auth_configs
                /\ running' = ~a.raised
                /\ last' = Call("main", 0, o, a)

\* the operator completes the OAuth consent of a pending connection, or the
\* connection is enabled again
Activate(i) ==
    /\ accounts[i].status = "INACTIVE"
    /\ accounts' = [accounts EXCEPT ![i].status = "ACTIVE"]
    /\ last' = NoCall
    /\ UNCHANGED <<cfgVars, authVars, clientVars, auth_configs, agent, running>>

\* the provider stops reporting a connection as ACTIVE (revoked, expired)
Deactivate(i) ==
    /\ accounts[i].status = "ACTIVE"
    /\ accounts' = [accounts EXCEPT ![i].status = "INACTIVE"]
    /\ last' = NoCall
    /\ UNCHANGED <<cfgVars, authVars, clientVars, auth_configs, agent, running>>

\* an auth configuration is deleted at the provider
DeleteAuthConfig(i) ==
    /\ auth_configs[i].listed
    /\ auth_configs' = [auth_configs EXCEPT ![i].listed = FALSE]
    /\ last' = NoCall
    /\ UNCHANGED <<cfgVars, authVars, clientVars, accounts, agent, running>>

NoCredentials == [n \in CredNames |-> None]
RequiredStored ==
    [n \in CredNames |->
        IF \E i \in 1..Len(RequiredNames) : RequiredNames[i] = n THEN "a" ELSE None]

Init ==
    /\ config_file \in {NoCredentials, RequiredStored}
    /\ _config = config_file
    /\ environ = [n \in CredNames |->
                     IF n \in {"composio_api_key", "openai_api_key"}
                     THEN config_file[n] ELSE None]
    /\ _auth_config = [connection_id |-> None, gmail_auth_config_id |-> None]
    /\ auth_file = _auth_config
    /\ composio_client = FALSE
    /\ openai_client = FALSE
    /\ accounts \in {<<>>} \cup {<<[id |-> AccountIds[1], status |-> s]>> : s \in Statuses}
    /\ auth_configs \in {<<>>} \cup
          {<<[id |-> AuthConfigIds[1], toolkit |-> t, listed |-> TRUE, ours |-> FALSE]>> :
              t \in Toolkits}
    /\ last = NoCall
    /\ agent = AgentIdle
    /\ running = FALSE

StatusStep == \E o \in StatusOutcomes : status(o)
AuthenticateStep == \E o \in AuthOutcomes : authenticate(o)
MainStep == \E y \in BOOLEAN, o \in AuthOutcomes : main(y, o)
ActivateStep == \E i \in 1..Len(accounts) : Activate(i)
DeactivateStep == \E i \in 1..Len(accounts) : Deactivate(i)
DeleteAuthConfigStep == \E i \in 1..Len(auth_configs) : DeleteAuthConfig(i)

Next ==
    \/ StatusStep
    \/ AuthenticateStep
    \/ logout
    \/ Import
    \/ MainStep
    \/ ActivateStep
    \/ DeactivateStep
    \/ DeleteAuthConfigStep

Spec == Init /\ [][Next]_vars

(***************************************************************************)
(* main.py: run_gmail_agent behind POST /query                             *)
(*                                                                         *)
(* A string that a tool returns is modelled by its length.  A tool result  *)
(* that the agent passes on is the record of the call identifier attached  *)
(* to it (None: none is attached), the number of characters of the tool's  *)
(* output it carries, and whether a truncation marker follows them.        *)
(***************************************************************************)

\* the number of tool calls in one model response
MaxToolCalls == 2

\* the number of model calls after which the model provider stops answering
MaxModelCalls == 6

\* the length up to which the specification lets a tool result through
TruncationLimit == 15000

\* how far beyond TruncationLimit the tool outputs of the model go
MaxExcess == 1

ToolCallIds == <<"call_1", "call_2", "call_3">>

\* the tool calls of a response: distinct identifiers, in the model's order
ToolCallSeqs ==
    {s \in UNION {[1..n -> {ToolCallIds[k] : k \in 1..MaxToolCalls}] :
                     n \in 0..MaxToolCalls} :
        \A i, j \in 1..Len(s) : i # j => s[i] # s[j]}

Contents == {None, "", "text"}

Responses == [content : Contents, tool_calls : ToolCallSeqs, replied : {TRUE}]

OutputLengths == {0, TruncationLimit} \cup {TruncationLimit + k : k \in 1..MaxExcess}

\* response.choices[0].message.content, "Action completed" when it is falsy
response_no_fallback(content) == content

response_text(content) == IF Truthy(content) THEN content ELSE "Action completed"

\* provider.handle_tool_calls: the tool calls it executes, in order
handle_tool_calls(tool_calls) == tool_calls

\* what the agent passes on for one executed tool call: the provider's output
\* as it is
tool_result(call_id, length) ==
    [tool_call_id |-> None, chars |-> length, marker |-> FALSE]

\* after the tool calls the agent goes back to the model while the response
\* carried tool calls
after_tool_calls_loops(response) ==
    IF response.tool_calls # <<>> THEN "model" ELSE "done"

\* after provider.handle_tool_calls the agent returns
after_tool_calls(response) == "done"

\* the two checks run_gmail_agent opens with, without the second one
precondition_error_no_auth_check(clients, found) ==
    IF ~clients THEN "Clients not initialized" ELSE None

\* the two checks run_gmail_agent opens with: the message of the ValueError
\* it raises, None when it goes on; found is evaluated only with clients
precondition_error(clients, found) ==
    IF ~clients THEN "Clients not initialized"
    ELSE IF ~found THEN "Gmail not authenticated"
    ELSE None

\* POST /query up to the model call: the request check, the two
\* preconditions of run_gmail_agent and tools.get
query(has_query, o, tools_get_raises) ==
    LET clients == composio_client /\ openai_client
        chk == check_connected_account_exists(composio_client, o)
        entered ==
            [AgentIdle EXCEPT
               !.pre = [entered |-> TRUE, clients |-> clients,
                        had_active |->
                           \E i \in 1..Len(accounts) : IsActive(accounts[i]),
                        list_accounts_raised |->
                           clients /\ o.list_accounts_raises]]
        error == precondition_error(clients, chk.ret)
    IN  /\ running
        /\ agent.pc \in {"idle", "done", "failed"}
        /\ UNCHANGED <<cfgVars, clientVars, providerVars, running>>
        /\ IF ~has_query
           THEN /\ agent' = AgentIdle
                /\ last' = [op |-> "query", http |-> 400]
                /\ UNCHANGED authVars
           ELSE IF ~clients
           THEN /\ agent' = [entered EXCEPT !.pc = "failed", !.error = error]
                /\ last' = [op |-> "query", http |-> 500]
                /\ UNCHANGED authVars
           ELSE IF chk.raised
           THEN /\ agent' = [entered EXCEPT !.pc = "failed",
                                            !.error = "provider"]
                /\ last' = [op |-> "query", http |-> 500]
                /\ UNCHANGED authVars
           ELSE /\ SetAuth(chk.connection_id, gmail_auth_config_id)
                /\ IF error # None
                   THEN /\ agent' = [entered EXCEPT !.pc = "failed",
                                                    !.error = error]
                        /\ last' = [op |-> "query", http |-> 500]
                   ELSE IF tools_get_raises
                   THEN /\ agent' = [entered EXCEPT !.pc = "failed",
                                                    !.error = "provider"]
                        /\ last' = [op |-> "query", http |-> 500]
                   ELSE /\ agent' = [entered EXCEPT !.pc = "model"]
                        /\ last' = NoCall

\* openai_client.chat.completions.create: it raises, or it replies
call_model(raises, response) ==
    /\ agent.pc = "model"
    /\ agent.model_calls < MaxModelCalls
    /\ IF raises
       THEN /\ agent' = [agent EXCEPT !.pc = "failed", !.error = "model",
                                      !.model_calls = @ + 1]
            /\ last' = [op |-> "query", http |-> 500]
       ELSE /\ agent' = [agent EXCEPT !.pc = "tools", !.response = response,
                                      !.model_calls = @ + 1]
            /\ last' = NoCall
    /\ UNCHANGED <<cfgVars, authVars, clientVars, providerVars, running>>

\* provider.handle_tool_calls and the return of run_gmail_agent: the tools run
\* one after the other, tool number failed_at raises (0: none does), and the
\* outputs are passed on with the text of the response
handle_and_return(lengths, failed_at) ==
    LET calls == handle_tool_calls(agent.response.tool_calls)
        n == Len(calls)
        ran == IF failed_at = 0 THEN n ELSE failed_at
    IN  /\ agent.pc = "tools"
        /\ DOMAIN lengths = 1..n
        /\ failed_at \in 0..n
        /\ IF failed_at # 0
           THEN /\ agent' = [agent EXCEPT !.pc = "failed", !.error = "provider",
                                          !.executed = SubSeq(calls, 1, ran)]
                /\ last' = [op |-> "query", http |-> 500]
           ELSE IF after_tool_calls(agent.response) = "model"
           THEN /\ agent' = [agent EXCEPT !.pc = "model",
                                          !.executed = calls,
                                          !.outputs = lengths]
                /\ last' = NoCall
           ELSE /\ agent' =
                    [agent EXCEPT
                       !.pc = "done",
                       !.executed = calls,
                       !.outputs = lengths,
                       !.result =
                          [response |-> response_text(agent.response.content),
                           tool_results |->
                              [i \in 1..n |-> tool_result(calls[i], lengths[i])]]]
                /\ last' = [op |-> "query", http |-> 200]
        /\ UNCHANGED <<cfgVars, authVars, clientVars, providerVars, running>>

InitAgent ==
    /\ config_file = RequiredStored
    /\ _config = config_file
    /\ environ = [n \in CredNames |->
                     IF n \in {"composio_api_key", "openai_api_key"}
                     THEN config_file[n] ELSE None]
    /\ _auth_config = [connection_id |-> None, gmail_auth_config_id |-> None]
    /\ auth_file = _auth_config
    /\ composio_client \in BOOLEAN
    /\ openai_client = composio_client
    /\ accounts \in {<<>>} \cup {<<[id |-> AccountIds[1], status |-> s]>> : s \in Statuses}
    /\ auth_configs = <<>>
    /\ last = NoCall
    /\ agent = AgentIdle
    /\ running = TRUE

QueryStep == \E q \in BOOLEAN, o \in StatusOutcomes, t \in BOOLEAN : query(q, o, t)
CallModelStep == \E r \in BOOLEAN, response \in Responses : call_model(r, response)
HandleAndReturnStep ==
    \E n \in 0..MaxToolCalls :
        \E lengths \in [1..n -> OutputLengths], f \in 0..n : handle_and_return(lengths, f)

NextAgent ==
    \/ QueryStep
    \/ CallModelStep
    \/ HandleAndReturnStep
    \/ ActivateStep
    \/ DeactivateStep

SpecAgent == InitAgent /\ [][NextAgent]_vars

(***************************************************************************)
(* Properties of the Credential Set (SpecConfig)                           *)
(***************************************************************************)

\* a credential is present when the stored value or the environment variable
\* is a non-empty string
Present(n) ==
    \/ (_config[n] # None /\ _config[n] # "")
    \/ (environ[n] # None /\ environ[n] # "")

\* C8: after a setter is handed v, the getter of that name returns v, whatever
\* the environment variable holds, for every string v (the empty one included)
C8_GetterReturnsSetValue ==
    [][\A n \in CredNames, v \in StoredValues : Setter(n, v) => Getter(n)' = v]_vars

\* C9: is_configured() holds exactly when the three required credentials are
\* present through either source, and exactly when nothing is missing
C9_IsConfiguredIffAllPresent ==
    /\ is_configured <=> \A i \in 1..Len(RequiredNames) : Present(RequiredNames[i])
    /\ is_configured <=> get_missing_credentials = <<>>

\* configured with one credential from storage only and one from the
\* environment only, and POST /config has built the clients on that answer
C9_Witness ==
    /\ is_configured
    /\ composio_client /\ openai_client
    /\ _config["composio_api_key"] = "a" /\ environ["composio_api_key"] = None
    /\ _config["openai_api_key"] = "" /\ environ["openai_api_key"] = "e"

\* C10: get_missing_credentials() is the required names that are absent, each
\* once, in the order composio_api_key, openai_api_key, azure_openai_endpoint
C10_MissingExactInOrder ==
    get_missing_credentials = SelectSeq(RequiredNames, LAMBDA n : ~Present(n))

\* nothing stored, nothing in the environment: the three names, in order
C10_Witness ==
    /\ \A n \in CredNames : _config[n] = None /\ environ[n] = None
    /\ get_missing_credentials =
          <<"composio_api_key", "openai_api_key", "azure_openai_endpoint">>

(***************************************************************************)
(* Properties of the OAuth lifecycle (Spec)                                *)
(***************************************************************************)

C6_TimeoutLeavesConnectionUnset ==
    (last.op = "authenticate" /\ last.timed_out)
        => (last.http = 500 /\ connection_id = None)

\* C7: auth_configs.create is called only when the provider lists no GMAIL
\* auth configuration, and the provider lists at most one GMAIL auth
\* configuration that this system created
C7_NoDuplicateAuthConfig ==
    /\ (last.op \in {"authenticate", "main"} /\ last.create_called)
          => ~last.had_gmail_config
    /\ Cardinality({i \in 1..Len(auth_configs) :
                       /\ auth_configs[i].listed /\ auth_configs[i].ours
                       /\ auth_configs[i].toolkit = "GMAIL"}) <= 1

(***************************************************************************)
(* Properties of run_gmail_agent (SpecAgent)                               *)
(***************************************************************************)

\* C1: one prompt makes at most 5 model-provider calls, whatever the model
\* provider answers, and the run ends without a 6th
C1_AtMostFiveModelCalls ==
    /\ agent.model_calls <= 5
    /\ agent.pc = "done" => agent.model_calls \in 1..5

\* a run has returned after a response that carried tool calls
C1_Witness ==
    /\ agent.pc = "done" /\ last.http = 200
    /\ Len(agent.response.tool_calls) = MaxToolCalls
    /\ Len(agent.result.tool_results) = MaxToolCalls
    /\ agent.model_calls = 1

\* C2: a tool result passed on is the tool's output when that has at most
\* 15,000 characters, and its first 15,000 characters followed by the
\* truncation marker otherwise
C2_ResultsTruncated ==
    agent.pc = "done" =>
        \A i \in 1..Len(agent.result.tool_results) :
            LET r == agent.result.tool_results[i]
                n == agent.outputs[i]
            IN  IF n > TruncationLimit
                THEN r.chars = TruncationLimit /\ r.marker
                ELSE r.chars = n /\ ~r.marker

\* C3: every tool call of a turn has exactly one tool result before any
\* further model call, the results are in the order of the calls, and each
\* carries the identifier of its call
C3_ResultsMatchCalls ==
    /\ agent.pc = "done" =>
          /\ agent.executed = agent.response.tool_calls
          /\ Len(agent.result.tool_results) = Len(agent.response.tool_calls)
          /\ \A i \in 1..Len(agent.result.tool_results) :
                agent.result.tool_results[i].tool_call_id =
                    agent.response.tool_calls[i]
    /\ agent.pc = "model" => agent.model_calls = 0

\* C4: a first response without tool calls: no tool is executed and the run
\* returns the response's text, "Action completed" when the text is empty or
\* absent
C4_NoToolCallsReturnsText ==
    (agent.pc \in {"done", "failed"} /\ agent.response.replied
       /\ agent.response.tool_calls = <<>>)
        => /\ agent.pc = "done"
           /\ agent.executed = <<>>
           /\ agent.result.tool_results = <<>>
           /\ agent.result.response =
                 IF agent.response.content \in {None, ""}
                 THEN "Action completed" ELSE agent.response.content

\* a run has returned the fallback text for a response without text and
\* without tool calls
C4_Witness ==
    /\ agent.pc = "done" /\ agent.response.replied
    /\ agent.response.tool_calls = <<>> /\ agent.response.content = None
    /\ agent.result.response = "Action completed"

(***************************************************************************)
(* Properties of the connection check and of logout (Spec)                 *)
(***************************************************************************)

\* C11: check_connected_account_exists never raises: a status check answers,
\* and answers "not authenticated" when the listing call raised or the
\* tool-provider client is not initialized
C11_CheckNeverRaises ==
    last.op = "status" =>
        /\ last.http = 200
        /\ (last.list_accounts_raised \/ ~composio_client)
              => last.authenticated = "false"

\* a status check has answered "not authenticated" when the listing call
\* raised although the provider holds an ACTIVE connection
C11_Witness ==
    /\ last.op = "status" /\ composio_client
    /\ last.list_accounts_raised /\ last.had_active
    /\ last.http = 200 /\ last.authenticated = "false"

\* C13: POST /logout in a state where is_authenticated() holds leaves
\* connection_id and gmail_auth_config_id absent in memory and in
\* auth_config.json, is_authenticated() false, and the Credential Set, with
\* it is_configured(), as it was
C13_LogoutClearsAuthState ==
    [][(is_authenticated /\ last'.op = "logout") =>
          /\ connection_id' = None /\ gmail_auth_config_id' = None
          /\ auth_file' = [connection_id |-> None,
                           gmail_auth_config_id |-> None]
          /\ ~is_authenticated'
          /\ UNCHANGED <<_config, config_file, environ>>
          /\ is_configured' = is_configured]_vars

\* logout has answered in a configured system that held a connection and an
\* auth configuration, and holds neither now
C13_Witness ==
    /\ last.op = "logout" /\ last.was_authenticated /\ last.http = 200
    /\ is_configured /\ ~is_authenticated
    /\ gmail_auth_config_id = None /\ auth_file = _auth_config
    /\ auth_configs # <<>>

\* C14: after a handler whose listing call returned, a connection_id held in
\* Auth State is the id of the first connection that listing reported ACTIVE,
\* or, the listing reporting none, the id of the connection request whose
\* wait_for_connection has completed since; a check that finds no ACTIVE
\* connection leaves no earlier connection_id in place
C14_ConnectionIdIsLive ==
    LET listed == /\ last.op \in {"status", "authenticate"}
                  /\ last.http # 400
                  /\ composio_client
                  /\ ~last.list_accounts_raised
        first == FirstIndex({k \in 1..Len(accounts) : IsActive(accounts[k])})
    IN  (listed /\ connection_id # None) =>
            IF last.had_active
            THEN connection_id = accounts[first].id
            ELSE /\ last.wait_called /\ ~last.timed_out
                 /\ connection_id = accounts[Len(accounts)].id

(***************************************************************************)
(* Preconditions of run_gmail_agent (SpecAgent)                            *)
(***************************************************************************)

\* the connection check of the run found an ACTIVE connection: the listing
\* call returned and the provider held one
FoundActive == agent.pre.had_active /\ ~agent.pre.list_accounts_raised

\* C12: a run entered with a client missing fails with the configuration
\* error, a run entered with both clients and no ACTIVE connection found
\* fails with the authentication error, a different one, and in both cases
\* no model call is made and no tool is executed
C12_PreconditionsBeforeWork ==
    /\ (agent.pre.entered /\ ~agent.pre.clients) =>
          /\ agent.pc = "failed" /\ agent.error = "Clients not initialized"
          /\ last.op = "query" => last.http = 500
          /\ agent.model_calls = 0 /\ agent.executed = <<>>
    /\ (agent.pre.entered /\ agent.pre.clients /\ ~FoundActive) =>
          /\ agent.pc = "failed" /\ agent.error = "Gmail not authenticated"
          /\ last.op = "query" => last.http = 500
          /\ agent.model_calls = 0 /\ agent.executed = <<>>

\* a run has been refused with the authentication error, both clients built
\* and the provider listing only an INACTIVE connection
C12_Witness ==
    /\ agent.pre.entered /\ agent.pre.clients
    /\ ~agent.pre.had_active /\ ~agent.pre.list_accounts_raised
    /\ accounts # <<>>
    /\ agent.pc = "failed" /\ agent.error = "Gmail not authenticated"
    /\ agent.model_calls = 0

====
